---- MODULE Spec2Model ----
(***************************************************************************)
(* Turn resolution of the Medbay Escape narrative engine.                  *)
(*                                                                         *)
(* Two turn pipelines live in the repository and both are modelled:        *)
(*   - the turn API of app/main.py: advance_turn over the one shared       *)
(*     GameManager (log, counter, character, zone) and the 2-phase         *)
(*     NarrativeEngine.process_turn (Actor, then Director);                *)
(*   - the 5-phase graph of app/game_loop/engine.py over GAME_STATE.       *)
(* Spec      : either program: the turn API serving one request at a time, *)
(*             or the 5-phase graph running one turn after another.        *)
(* SpecConc  : turn API, requests served concurrently (threadpool).        *)
(* SpecResolve : run_director_resolver over all stats, tiers and dice.     *)
(***************************************************************************)
EXTENDS Integers, Sequences, FiniteSets, TLC

\* ---------------------------------------------------------------- bounds
MaxRequests == 2
MaxTurns == 3

Requests == 1..MaxRequests

\* ------------------------------------------------- app/schemas.py (API)
ZoneFields == {"name", "description", "exits"}
CharacterFields == {"name", "attributes", "skills", "inventory", "agenda", "status"}

\* Attributes every pydantic model object has besides its fields: hasattr
\* is true for them, setattr raises ValueError (no such field).
ModelAttrs == {"model_dump"}

\* Abstract field values: the loaded one, another valid one, and one that
\* does not validate against the field's declared type.
Values == {"v0", "v1", "bad"}

MessageType == {"system", "commander", "ai_thoughts", "ai_dialogue", "ai_action"}

LogEntry(turn, type, author, by) ==
    [turn |-> turn, type |-> type, author |-> author, by |-> by]

\* ------------------------------------------------------------- inputs
\* Commander texts of a CommandRequest.
Commands == {"", "  ", "fix the door"}

\* Mutant of strip: the command is tested as it came.
stripNothing(s) == s

\* str.strip on the commands above
strip(s) == IF s = "  " THEN "" ELSE s

\* A part of a patch: a JSON object (dict) with its items in order, or a
\* JSON value that is not an object.
Dict(items) == [dict |-> TRUE, items |-> items]
NotADict == [dict |-> FALSE, items |-> << >>]

\* world_updates returned by the Director (parsed JSON, not validated).
NoUpdates == << >>
WorldUpdates ==
    { NoUpdates,
      [zone |-> Dict(<< <<"description", "v1">> >>)],
      [zone |-> Dict(<< <<"exits", "v1">> >>),
       character |-> Dict(<< <<"status", "v1">> >>)],
      [zone |-> Dict(<< <<"description", "v1">>, <<"model_dump", "v1">> >>)],
      [zone |-> Dict(<< <<"bogus", "v1">> >>),
       character |-> Dict(<< <<"bogus", "v1">> >>),
       mission |-> Dict(<< <<"status", "v1">> >>)],
      [character |-> Dict(<< <<"bogus", "v1">>, <<"model_dump", "v1">> >>)],
      [character |-> Dict(<< <<"status", "bad">> >>)],
      [zone |-> NotADict] }

\* What get_actor_intent returned when it returned without an error.
ActorResults ==
    { [thoughts |-> TRUE, speech |-> TRUE],
      [thoughts |-> FALSE, speech |-> FALSE] }

NoActor == [thoughts |-> FALSE, speech |-> FALSE]
NoDirector == [narration |-> FALSE, world_updates |-> NoUpdates]

DirectorResults ==
    { [narration |-> TRUE, world_updates |-> w] : w \in WorldUpdates }
    \cup { [narration |-> FALSE, world_updates |-> w] :
             w \in {NoUpdates, [zone |-> Dict(<< <<"description", "v1">> >>)]} }

\* Outcomes of writing the two JSON files.
SaveOutcomes == {"ok", "character_fails", "zone_fails"}

VARIABLES
    current_turn,     \* GameManager.current_turn
    game_log,         \* GameManager.game_log
    character,        \* GameManager.character
    zone,             \* GameManager.zone
    saved,            \* character_miller.json, zone_medbay_b.json
    pc,               \* position of each advance_turn request
    actor_result,     \* result["actor_result"] of each request
    director_result,  \* result["director_result"] of each request
    error,            \* result["error"] of each request (TRUE: non-empty)
    http,             \* status returned to the caller
    tmp_turn,         \* value read by current_turn += 1
    start,            \* history: world and counter each request started from
    calls,            \* history: capability invocations of each request
    commits,          \* history: the apply_world_updates call of each request
    query,            \* the GET /api/state request: position and values read
    GAME_STATE,       \* initial_state.GAME_STATE
    agent,            \* the AgentState passed between the graph nodes
    roll,             \* locals of the last skill check of run_director_resolver
    draws,            \* number of random.randint calls so far
    path,             \* history: graph nodes run in the current turn
    actor_failed,     \* history: run_ai_actor took its except branch this turn
    began,            \* history: GAME_STATE when the current turn began
    previous          \* history: outcome of an earlier run of the resolver

apiVars == <<current_turn, game_log, character, zone, saved, pc, actor_result,
             director_result, error, http, tmp_turn, start, calls, commits, query>>

graphVars == <<GAME_STATE, agent, roll, draws, path, actor_failed, began, previous>>

vars == <<apiVars, graphVars>>

\* History record of one capability invocation and how it ended.
Call(capability, outcome) == [capability |-> capability, outcome |-> outcome]

\* ------------------------------------------------- app/game_manager.py
\* Mutant of add_log_entry: the newest entry is put first.
add_log_entry_at_front(log, turn, type, author, by) ==
    <<LogEntry(turn, type, author, by)>> \o log

\* GameManager.add_log_entry
add_log_entry(log, turn, type, author, by) ==
    Append(log, LogEntry(turn, type, author, by))

\* The for loop of apply_world_updates over one part of the patch:
\* hasattr/setattr item by item, stopping at the first setattr that raises.
RECURSIVE SetAttrs(_, _, _)
SetAttrs(obj, items, i) ==
    IF i > Len(items) THEN [obj |-> obj, raised |-> FALSE]
    ELSE LET key == items[i][1]
             value == items[i][2]
         IN  IF key \in DOMAIN obj
             THEN SetAttrs([obj EXCEPT ![key] = value], items, i + 1)
             ELSE IF key \in ModelAttrs
                  THEN [obj |-> obj, raised |-> TRUE]
                  ELSE SetAttrs(obj, items, i + 1)

\* One part ("zone" or "character") of apply_world_updates.
ApplyPart(obj, updates, part) ==
    IF part \notin DOMAIN updates THEN [obj |-> obj, raised |-> FALSE]
    ELSE IF ~updates[part].dict THEN [obj |-> obj, raised |-> TRUE]
    ELSE SetAttrs(obj, updates[part].items, 1)

\* GameManager._save_state: the character file, then the zone file.
save_state(files, ch, zn, io) ==
    CASE io = "ok" -> [files |-> [character |-> ch, zone |-> zn], raised |-> FALSE]
      [] io = "character_fails" -> [files |-> files, raised |-> TRUE]
      [] io = "zone_fails" -> [files |-> [files EXCEPT !.character = ch], raised |-> TRUE]

\* GameManager._load_character and _load_zone: the JSON file is parsed
\* and the model is built from it, which validates every field against its
\* declared type; a value that does not validate raises ValidationError.
load_model(file) ==
    IF \E f \in DOMAIN file : file[f] = "bad"
    THEN [raised |-> TRUE, obj |-> file]
    ELSE [raised |-> FALSE, obj |-> file]

\* GameManager.__init__ on the files as they are: the counter and the log
\* start afresh, the character and the zone come from the files.
GameManager(files) ==
    LET c == load_model(files.character)
        z == load_model(files.zone)
    IN  [raised |-> c.raised \/ z.raised, current_turn |-> 0, game_log |-> << >>,
         character |-> c.obj, zone |-> z.obj]

\* What a call of apply_world_updates hands back: the function has no
\* return statement, so the caller gets None and no set of applied fields.
ReturnsNone == [none |-> TRUE, applied |-> {}]

\* GameManager.apply_world_updates: zone part, character part, save.
\* io is the outcome of the save, "not_reached" when a part raised before.
apply_world_updates(ch, zn, files, updates, io) ==
    LET z == ApplyPart(zn, updates, "zone")
    IN  IF z.raised
        THEN [character |-> ch, zone |-> z.obj, files |-> files, raised |-> TRUE,
              io |-> "not_reached", returned |-> ReturnsNone]
        ELSE LET c == ApplyPart(ch, updates, "character")
             IN  IF c.raised
                 THEN [character |-> c.obj, zone |-> z.obj, files |-> files,
                       raised |-> TRUE, io |-> "not_reached",
                       returned |-> ReturnsNone]
                 ELSE LET s == save_state(files, c.obj, z.obj, io)
                      IN  [character |-> c.obj, zone |-> z.obj,
                           files |-> s.files, raised |-> s.raised, io |-> io,
                           returned |-> ReturnsNone]

\* The state query before it has read anything.
NoQuery == [pc |-> "idle", log |-> << >>, current_turn |-> 0]

\* History record of a request that has not called apply_world_updates.
NoCommit == [called |-> FALSE, raised |-> FALSE, io |-> "not_reached",
             returned |-> ReturnsNone]

\* ------------------------------------------------------------ app/main.py
InitApi ==
    /\ current_turn = 0
    /\ game_log = << >>
    /\ character = [f \in CharacterFields |-> "v0"]
    /\ zone = [f \in ZoneFields |-> "v0"]
    /\ saved = [character |-> [f \in CharacterFields |-> "v0"],
                zone |-> [f \in ZoneFields |-> "v0"]]
    /\ pc = [r \in Requests |-> "idle"]
    /\ actor_result = [r \in Requests |-> NoActor]
    /\ director_result = [r \in Requests |-> NoDirector]
    /\ error = [r \in Requests |-> FALSE]
    /\ http = [r \in Requests |-> 0]
    /\ tmp_turn = [r \in Requests |-> 0]
    /\ start = [r \in Requests |-> [command |-> "", turn |-> 0, character |-> character,
                                    zone |-> zone, log |-> 0]]
    /\ calls = [r \in Requests |-> << >>]
    /\ commits = [r \in Requests |-> NoCommit]
    /\ query = NoQuery

InFlight(r) == pc[r] \notin {"idle", "done"}

\* Requests arrive in the order of their numbers.
NextToArrive(r) == pc[r] = "idle" /\ \A q \in Requests : q < r => pc[q] # "idle"

\* advance_turn, lines 82-84: strip the command, reject an empty one.
Receive(r, text) ==
    /\ NextToArrive(r)
    /\ UNCHANGED <<graphVars, commits, query>>
    /\ start' = [start EXCEPT ![r] = [command |-> text, turn |-> current_turn,
                                      character |-> character, zone |-> zone,
                                      log |-> Len(game_log)]]
    /\ IF strip(text) = ""
       THEN /\ http' = [http EXCEPT ![r] = 400]
            /\ pc' = [pc EXCEPT ![r] = "done"]
       ELSE /\ pc' = [pc EXCEPT ![r] = "log_command"]
            /\ UNCHANGED http
    /\ UNCHANGED <<current_turn, game_log, character, zone, saved, actor_result,
                   director_result, error, tmp_turn, calls>>

\* The same, when the caller waits for each reply before the next command
\* (and the engine program has not been started).
ReceiveSerial(r, text) ==
    /\ agent.node = "idle" /\ path = << >>
    /\ \A q \in Requests : ~InFlight(q)
    /\ Receive(r, text)

\* Mutant of LogCommand: the commander's entry is stamped with the number
\* of the turn that would follow.
LogCommandNextTurn(r) ==
    /\ pc[r] = "log_command"
    /\ UNCHANGED <<graphVars, commits, query>>
    /\ game_log' = add_log_entry(game_log, current_turn + 1, "commander", "Commander", r)
    /\ pc' = [pc EXCEPT ![r] = "actor"]
    /\ UNCHANGED <<current_turn, character, zone, saved, actor_result,
                   director_result, error, http, tmp_turn, start, calls>>

\* advance_turn, step 1: log the commander's input.
LogCommand(r) ==
    /\ pc[r] = "log_command"
    /\ UNCHANGED <<graphVars, commits, query>>
    /\ game_log' = add_log_entry(game_log, current_turn, "commander", "Commander", r)
    /\ pc' = [pc EXCEPT ![r] = "actor"]
    /\ UNCHANGED <<current_turn, character, zone, saved, actor_result,
                   director_result, error, http, tmp_turn, start, calls>>

\* Mutant of CallActor: process_turn does not look at the Actor's error and
\* goes on to the Director.
CallActorIgnoringError(r, results) ==
    /\ pc[r] = "actor"
    /\ UNCHANGED <<graphVars, commits, query>>
    /\ \/ \E a \in results :
            /\ actor_result' = [actor_result EXCEPT ![r] = a]
            /\ pc' = [pc EXCEPT ![r] = "director"]
            /\ calls' = [calls EXCEPT ![r] = Append(@, Call("actor", "ok"))]
       \/ /\ pc' = [pc EXCEPT ![r] = "director"]
          /\ calls' = [calls EXCEPT ![r] = Append(@, Call("actor", "error"))]
          /\ UNCHANGED actor_result
       \/ /\ pc' = [pc EXCEPT ![r] = "log_failed"]
          /\ calls' = [calls EXCEPT ![r] = Append(@, Call("actor", "raise"))]
          /\ UNCHANGED actor_result
    /\ UNCHANGED <<current_turn, game_log, character, zone, saved, error,
                   director_result, http, tmp_turn, start>>

\* Mutant of CallActor: process_turn keeps the Actor's error for its return
\* value but runs the Director before it returns.
CallActorCheckingErrorLate(r, results) ==
    /\ pc[r] = "actor"
    /\ UNCHANGED <<graphVars, commits, query>>
    /\ \/ \E a \in results :
            /\ actor_result' = [actor_result EXCEPT ![r] = a]
            /\ pc' = [pc EXCEPT ![r] = "director"]
            /\ calls' = [calls EXCEPT ![r] = Append(@, Call("actor", "ok"))]
            /\ UNCHANGED error
       \/ /\ error' = [error EXCEPT ![r] = TRUE]
          /\ pc' = [pc EXCEPT ![r] = "director"]
          /\ calls' = [calls EXCEPT ![r] = Append(@, Call("actor", "error"))]
          /\ UNCHANGED actor_result
       \/ /\ pc' = [pc EXCEPT ![r] = "log_failed"]
          /\ calls' = [calls EXCEPT ![r] = Append(@, Call("actor", "raise"))]
          /\ UNCHANGED <<actor_result, error>>
    /\ UNCHANGED <<current_turn, game_log, character, zone, saved,
                   director_result, http, tmp_turn, start>>

\* advance_turn steps 2-3 and process_turn step 1: get_actor_intent returns
\* a result, returns an error result, or raises (prompt file or client).
CallActor(r, results) ==
    /\ pc[r] = "actor"
    /\ UNCHANGED <<graphVars, commits, query>>
    /\ \/ \E a \in results :
            /\ actor_result' = [actor_result EXCEPT ![r] = a]
            /\ pc' = [pc EXCEPT ![r] = "director"]
            /\ calls' = [calls EXCEPT ![r] = Append(@, Call("actor", "ok"))]
            /\ UNCHANGED error
       \/ /\ error' = [error EXCEPT ![r] = TRUE]
          /\ pc' = [pc EXCEPT ![r] = "log_error"]
          /\ calls' = [calls EXCEPT ![r] = Append(@, Call("actor", "error"))]
          /\ UNCHANGED actor_result
       \/ /\ pc' = [pc EXCEPT ![r] = "log_failed"]
          /\ calls' = [calls EXCEPT ![r] = Append(@, Call("actor", "raise"))]
          /\ UNCHANGED <<actor_result, error>>
    /\ UNCHANGED <<current_turn, game_log, character, zone, saved,
                   director_result, http, tmp_turn, start>>

\* Mutant of CallDirector: a failed call of the Director is tried again.
CallDirectorRetrying(r, results) ==
    /\ pc[r] = "director"
    /\ UNCHANGED <<graphVars, commits, query>>
    /\ \/ \E d \in results :
            /\ director_result' = [director_result EXCEPT ![r] = d]
            /\ pc' = [pc EXCEPT ![r] = "log_thoughts"]
            /\ calls' = [calls EXCEPT ![r] = Append(@, Call("director", "ok"))]
            /\ UNCHANGED error
       \/ /\ Len(calls[r]) < 3
          /\ calls' = [calls EXCEPT ![r] = Append(@, Call("director", "error"))]
          /\ UNCHANGED <<pc, error, director_result>>
       \/ /\ Len(calls[r]) >= 3
          /\ error' = [error EXCEPT ![r] = TRUE]
          /\ pc' = [pc EXCEPT ![r] = "log_error"]
          /\ calls' = [calls EXCEPT ![r] = Append(@, Call("director", "error"))]
          /\ UNCHANGED director_result
    /\ UNCHANGED <<current_turn, game_log, character, zone, saved,
                   actor_result, http, tmp_turn, start>>

\* process_turn step 3: run_director returns a result or an error.
CallDirector(r, results) ==
    /\ pc[r] = "director"
    /\ UNCHANGED <<graphVars, commits, query>>
    /\ \/ \E d \in results :
            /\ director_result' = [director_result EXCEPT ![r] = d]
            /\ pc' = [pc EXCEPT ![r] = "log_thoughts"]
            /\ calls' = [calls EXCEPT ![r] = Append(@, Call("director", "ok"))]
            /\ UNCHANGED error
       \/ /\ error' = [error EXCEPT ![r] = TRUE]
          /\ pc' = [pc EXCEPT ![r] = "log_error"]
          /\ calls' = [calls EXCEPT ![r] = Append(@, Call("director", "error"))]
          /\ UNCHANGED director_result
    /\ UNCHANGED <<current_turn, game_log, character, zone, saved,
                   actor_result, http, tmp_turn, start>>

\* Mutant of LogError: the HTTPException raised after the system entry is
\* caught by the generic handler, which logs again.
LogErrorCaughtAgain(r) ==
    /\ pc[r] = "log_error"
    /\ UNCHANGED <<graphVars, commits, query>>
    /\ game_log' = add_log_entry(game_log, current_turn, "system", "System", r)
    /\ pc' = [pc EXCEPT ![r] = "log_failed"]
    /\ UNCHANGED <<current_turn, character, zone, saved, actor_result,
                   director_result, error, http, tmp_turn, start, calls>>

\* advance_turn, lines 96-99: result["error"] is logged and returned as 500.
LogError(r) ==
    /\ pc[r] = "log_error"
    /\ UNCHANGED <<graphVars, commits, query>>
    /\ game_log' = add_log_entry(game_log, current_turn, "system", "System", r)
    /\ http' = [http EXCEPT ![r] = 500]
    /\ pc' = [pc EXCEPT ![r] = "done"]
    /\ UNCHANGED <<current_turn, character, zone, saved, actor_result,
                   director_result, error, tmp_turn, start, calls>>

\* advance_turn, step 4: the three optional log entries, one at a time.
LogThoughts(r) ==
    /\ pc[r] = "log_thoughts"
    /\ UNCHANGED <<graphVars, commits, query>>
    /\ game_log' = IF actor_result[r].thoughts
                   THEN add_log_entry(game_log, current_turn, "ai_thoughts",
                                      character["name"], r)
                   ELSE game_log
    /\ pc' = [pc EXCEPT ![r] = "log_speech"]
    /\ UNCHANGED <<current_turn, character, zone, saved, actor_result,
                   director_result, error, http, tmp_turn, start, calls>>

LogSpeech(r) ==
    /\ pc[r] = "log_speech"
    /\ UNCHANGED <<graphVars, commits, query>>
    /\ game_log' = IF actor_result[r].speech
                   THEN add_log_entry(game_log, current_turn, "ai_dialogue",
                                      character["name"], r)
                   ELSE game_log
    /\ pc' = [pc EXCEPT ![r] = "log_action"]
    /\ UNCHANGED <<current_turn, character, zone, saved, actor_result,
                   director_result, error, http, tmp_turn, start, calls>>

LogAction(r) ==
    /\ pc[r] = "log_action"
    /\ UNCHANGED <<graphVars, commits, query>>
    /\ game_log' = IF director_result[r].narration
                   THEN add_log_entry(game_log, current_turn, "ai_action", "Director", r)
                   ELSE game_log
    /\ pc' = [pc EXCEPT ![r] = "apply"]
    /\ UNCHANGED <<current_turn, character, zone, saved, actor_result,
                   director_result, error, http, tmp_turn, start, calls>>

\* advance_turn, step 5: apply the world updates if there are any.
ApplyUpdates(r) ==
    /\ pc[r] = "apply"
    /\ UNCHANGED <<graphVars, query>>
    /\ IF director_result[r].world_updates = NoUpdates
       THEN /\ pc' = [pc EXCEPT ![r] = "advance"]
            /\ UNCHANGED <<character, zone, saved, commits>>
       ELSE \E io \in SaveOutcomes :
              LET a == apply_world_updates(character, zone, saved,
                                           director_result[r].world_updates, io)
              IN  /\ character' = a.character
                  /\ zone' = a.zone
                  /\ saved' = a.files
                  /\ commits' = [commits EXCEPT ![r] =
                                   [called |-> TRUE, raised |-> a.raised,
                                    io |-> a.io, returned |-> a.returned]]
                  /\ pc' = [pc EXCEPT ![r] = IF a.raised THEN "log_failed"
                                                          ELSE "advance"]
    /\ UNCHANGED <<current_turn, game_log, actor_result, director_result, error,
                   http, tmp_turn, start, calls>>

\* advance_turn, step 6, and GameManager.advance_turn: current_turn += 1
\* reads the counter ...
AdvanceRead(r) ==
    /\ pc[r] = "advance"
    /\ UNCHANGED <<graphVars, commits, query>>
    /\ tmp_turn' = [tmp_turn EXCEPT ![r] = current_turn]
    /\ pc' = [pc EXCEPT ![r] = "advance_write"]
    /\ UNCHANGED <<current_turn, game_log, character, zone, saved, actor_result,
                   director_result, error, http, start, calls>>

\* ... and writes it back incremented.
AdvanceWrite(r) ==
    /\ pc[r] = "advance_write"
    /\ UNCHANGED <<graphVars, commits, query>>
    /\ current_turn' = tmp_turn[r] + 1
    /\ pc' = [pc EXCEPT ![r] = "respond"]
    /\ UNCHANGED <<game_log, character, zone, saved, actor_result,
                   director_result, error, http, tmp_turn, start, calls>>

\* advance_turn, step 7: return the updated state.
Respond(r) ==
    /\ pc[r] = "respond"
    /\ UNCHANGED <<graphVars, commits, query>>
    /\ http' = [http EXCEPT ![r] = 200]
    /\ pc' = [pc EXCEPT ![r] = "done"]
    /\ UNCHANGED <<current_turn, game_log, character, zone, saved, actor_result,
                   director_result, error, tmp_turn, start, calls>>

\* Mutant of LogFailed: the failed turn is counted as well.
LogFailedAdvancing(r) ==
    /\ pc[r] = "log_failed"
    /\ UNCHANGED <<graphVars, commits, query>>
    /\ game_log' = add_log_entry(game_log, current_turn, "system", "System", r)
    /\ current_turn' = current_turn + 1
    /\ http' = [http EXCEPT ![r] = 500]
    /\ pc' = [pc EXCEPT ![r] = "done"]
    /\ UNCHANGED <<character, zone, saved, actor_result, director_result, error,
                   tmp_turn, start, calls>>

\* advance_turn, lines 145-147: any other exception is logged, then 500.
LogFailed(r) ==
    /\ pc[r] = "log_failed"
    /\ UNCHANGED <<graphVars, commits, query>>
    /\ game_log' = add_log_entry(game_log, current_turn, "system", "System", r)
    /\ http' = [http EXCEPT ![r] = 500]
    /\ pc' = [pc EXCEPT ![r] = "done"]
    /\ UNCHANGED <<current_turn, character, zone, saved, actor_result,
                   director_result, error, tmp_turn, start, calls>>

\* Everything of advance_turn after the command was received.
Step(r) ==
    \/ LogCommand(r)
    \/ LogError(r)
    \/ LogThoughts(r)
    \/ LogSpeech(r)
    \/ LogAction(r)
    \/ ApplyUpdates(r)
    \/ AdvanceRead(r)
    \/ AdvanceWrite(r)
    \/ Respond(r)
    \/ LogFailed(r)

\* Mutant of ReadLog: the entries are returned newest first.
ReadLogNewestFirst ==
    /\ query.pc \in {"idle", "done"}
    /\ query' = [query EXCEPT
                   !.log = [i \in DOMAIN game_log |-> game_log[Len(game_log) + 1 - i]],
                   !.pc = "read_turn"]
    /\ UNCHANGED <<current_turn, game_log, character, zone, saved, pc, actor_result,
                   director_result, error, http, tmp_turn, start, calls, commits>>
    /\ UNCHANGED graphVars

\* GET /api/state, GameManager.get_current_state: the dict is built entry
\* by entry, "log" is a copy of game_log made by the list comprehension ...
ReadLog ==
    /\ query.pc \in {"idle", "done"}
    /\ query' = [query EXCEPT !.log = game_log, !.pc = "read_turn"]
    /\ UNCHANGED <<current_turn, game_log, character, zone, saved, pc, actor_result,
                   director_result, error, http, tmp_turn, start, calls, commits>>
    /\ UNCHANGED graphVars

\* ... and "current_turn" is read after it; get_game_state returns both.
ReadTurn ==
    /\ query.pc = "read_turn"
    /\ query' = [query EXCEPT !.current_turn = current_turn, !.pc = "done"]
    /\ UNCHANGED <<current_turn, game_log, character, zone, saved, pc, actor_result,
                   director_result, error, http, tmp_turn, start, calls, commits>>
    /\ UNCHANGED graphVars

get_game_state == ReadLog \/ ReadTurn

\* ------------------------------------------------ app/state/schemas.py
\* Python's None, and a bool held in an Optional[bool] field.
None == "None"
Bool(b) == IF b THEN "True" ELSE "False"

ActionIntent(verb, target, using, speed) ==
    [verb |-> verb, target |-> target, using |-> using, speed |-> speed]

ActorResponse(thoughts, speech, intent) ==
    [thoughts |-> thoughts, speech |-> speech, action_intent |-> intent]

DirectorResult(needed, skill, difficulty, success, narration, updates) ==
    [skill_check_needed |-> needed, skill_used |-> skill, difficulty |-> difficulty,
     success |-> success, narration |-> narration, state_updates |-> updates]

TurnResult(feed, speech, changes, turn, active) ==
    [helmet_cam_feed |-> feed, character_speech |-> speech, state_changes |-> changes,
     turn_number |-> turn, active_character |-> active]

\* Fields of an AgentState that no node has filled in yet.
NoResponse == ActorResponse("", "", ActionIntent("", "", None, ""))
NoResult == DirectorResult(FALSE, None, None, None, "", << >>)
NoTurnResult == TurnResult("", "", << >>, 0, "")
NoRoll == [d1 |-> 0, d2 |-> 0, attribute_value |-> 0, skill_value |-> 0,
           total |-> 0, threshold |-> 0]

\* -------------------------------------------- app/state/initial_state.py
miller ==
    [name |-> "Vanessa Miller",
     attributes |-> [might |-> 2, agility |-> 2, wits |-> 2, empathy |-> 1],
     skills |-> [comtech |-> 1, heavy_machinery |-> 0, stamina |-> 1,
                 close_combat |-> 1, ranged_combat |-> 2, piloting |-> 0,
                 command |-> 1, manipulation |-> 0, medical_aid |-> 0,
                 mobility |-> 1, observation |-> 1, survival |-> 1],
     inventory |-> <<"multitool", "pistol", "flashlight">>,
     status |-> [health |-> "healthy", stress |-> 1, conditions |-> << >>],
     current_zone |-> "medbay_b"]

medbay_b ==
    [id |-> "medbay_b",
     exits |-> [north_door |-> [to |-> "corridor_3", status |-> "locked"]],
     objects |->
        [door_control_panel_north |->
            [status |-> "smashed",
             properties |-> [repairable |-> TRUE, required_skill |-> "comtech",
                             difficulty |-> "moderate"]],
         medical_scanner |->
            [status |-> "functional",
             properties |-> [power |-> "on", last_scan |-> "unknown_patient"]],
         supply_cabinet |->
            [status |-> "locked",
             properties |-> [lock_type |-> "keycard"]]]]

\* Mutant of create_initial_game_state: the counter starts at 0.
create_initial_game_state_at_zero ==
    [characters |-> [miller |-> miller],
     zones |-> [medbay_b |-> medbay_b],
     current_turn |-> 0,
     active_character_id |-> "miller",
     game_log |-> << >>]

\* create_initial_game_state and the GAME_STATE it is called for.
create_initial_game_state ==
    [characters |-> [miller |-> miller],
     zones |-> [medbay_b |-> medbay_b],
     current_turn |-> 1,
     active_character_id |-> "miller",
     game_log |-> << >>]

\* --------------------------------------------- app/game_loop/engine.py
\* Intents the Actor's model may answer with.
Verbs == {"REPAIR", "EXAMINE", "MOVE"}
Targets == {"door_control_panel_north", "north_door", "medical_scanner", "airlock"}
\* Values of action_intent["using"]: a tool of miller's inventory and one
\* that is not in it.
Tools == {"multitool", "plasma_cutter"}
Intents ==
    { ActionIntent(v, t, None, "slow") : v \in Verbs, t \in Targets }
    \cup { ActionIntent("REPAIR", "door_control_panel_north", tool, "slow") :
             tool \in Tools }

Die == 1..6
\* Faces sampled when whole turns are run.
TurnDie == {1, 6}

\* state.current_character and state.current_zone are the objects held by
\* GAME_STATE (run_single_turn passes references).
current_character == GAME_STATE.characters[GAME_STATE.active_character_id]
current_zone == GAME_STATE.zones[current_character.current_zone]

\* dict.get(key, default)
Get(d, key, default) == IF key \in DOMAIN d THEN d[key] ELSE default

\* Mutant of Edge: the resolver is wired to the state updater.
EdgeSkippingNarrator(node) ==
    CASE node = "ai_actor" -> "director_interpreter"
      [] node = "director_interpreter" -> "director_resolver"
      [] node = "director_resolver" -> "director_state_updater"
      [] node = "director_narrator" -> "director_state_updater"
      [] node = "director_state_updater" -> "END"

\* No earlier run of the resolver is recorded.
NoPrevious == [recorded |-> FALSE, roll |-> NoRoll, success |-> None]

\* create_narrative_graph: the entry point and the edges.
EntryPoint == "ai_actor"
Edge(node) ==
    CASE node = "ai_actor" -> "director_interpreter"
      [] node = "director_interpreter" -> "director_resolver"
      [] node = "director_resolver" -> "director_narrator"
      [] node = "director_narrator" -> "director_state_updater"
      [] node = "director_state_updater" -> "END"

InitGraph ==
    /\ GAME_STATE = create_initial_game_state
    /\ agent = [node |-> "idle", commander_command |-> "", actor_response |-> NoResponse,
                director_result |-> NoResult, turn_result |-> NoTurnResult]
    /\ roll = NoRoll
    /\ draws = 0
    /\ path = << >>
    /\ actor_failed = FALSE
    /\ began = GAME_STATE
    /\ previous = NoPrevious

\* run_single_turn up to graph.invoke: a fresh AgentState enters the graph.
run_single_turn(commander_command) ==
    /\ agent.node = "idle"
    /\ GAME_STATE.current_turn <= MaxTurns
    /\ agent' = [node |-> EntryPoint, commander_command |-> commander_command,
                 actor_response |-> NoResponse, director_result |-> NoResult,
                 turn_result |-> NoTurnResult]
    /\ roll' = NoRoll
    /\ path' = << >>
    /\ actor_failed' = FALSE
    /\ began' = GAME_STATE
    /\ UNCHANGED <<GAME_STATE, draws, apiVars, previous>>

\* run_single_turn as the entry point of the engine program.
RunTurn(commander_command) ==
    /\ \A r \in Requests : pc[r] = "idle"
    /\ run_single_turn(commander_command)

\* The fallback of run_ai_actor's except branch.
fallback_response ==
    ActorResponse("fallback", "fallback",
                  ActionIntent("EXAMINE", "door_control_panel_north", None, "slow"))

\* Mutant of run_ai_actor: no except branch, an error of the model call
\* leaves the graph and run_single_turn with the exception.
run_ai_actor_raising ==
    /\ agent.node = "ai_actor"
    /\ \/ \E intent \in Intents :
            /\ agent' = [agent EXCEPT !.actor_response =
                                          ActorResponse("thoughts", "speech", intent),
                                      !.node = Edge("ai_actor")]
            /\ UNCHANGED actor_failed
       \/ /\ agent' = [agent EXCEPT !.node = "raised"]
          /\ actor_failed' = TRUE
    /\ path' = Append(path, "ai_actor")
    /\ UNCHANGED <<GAME_STATE, roll, draws, began, apiVars, previous>>

\* Node 1: the model answers with an intent, or anything in the try block
\* raises and the fallback response is used.
run_ai_actor ==
    /\ agent.node = "ai_actor"
    /\ \/ \E intent \in Intents :
            /\ agent' = [agent EXCEPT !.actor_response =
                                          ActorResponse("thoughts", "speech", intent),
                                      !.node = Edge("ai_actor")]
            /\ UNCHANGED actor_failed
       \/ /\ agent' = [agent EXCEPT !.actor_response = fallback_response,
                                    !.node = Edge("ai_actor")]
          /\ actor_failed' = TRUE
    /\ path' = Append(path, "ai_actor")
    /\ UNCHANGED <<GAME_STATE, roll, draws, began, apiVars, previous>>

\* Mutant of interpret: an object that is functional needs no check.
interpret_skipping_functional(target, zn) ==
    IF target \in DOMAIN zn.objects
    THEN LET obj == zn.objects[target]
         IN  IF /\ Get(obj.properties, "required_skill", None) \notin {None, ""}
                /\ obj.status # "functional"
             THEN DirectorResult(TRUE, obj.properties["required_skill"],
                                 Get(obj.properties, "difficulty", "moderate"),
                                 None, "", << >>)
             ELSE NoResult
    ELSE IF target \in DOMAIN zn.exits
    THEN IF zn.exits[target].status = "locked"
         THEN DirectorResult(TRUE, "comtech", "moderate", None, "", << >>)
         ELSE NoResult
    ELSE NoResult

\* Mutant of interpret: the exits are looked up before the objects.
interpret_exits_first(target, zn) ==
    IF target \in DOMAIN zn.exits
    THEN IF zn.exits[target].status = "locked"
         THEN DirectorResult(TRUE, "comtech", "moderate", None, "", << >>)
         ELSE NoResult
    ELSE IF target \in DOMAIN zn.objects
    THEN LET obj == zn.objects[target]
         IN  IF Get(obj.properties, "required_skill", None) \notin {None, ""}
             THEN DirectorResult(TRUE, obj.properties["required_skill"],
                                 Get(obj.properties, "difficulty", "moderate"),
                                 None, "", << >>)
             ELSE NoResult
    ELSE NoResult

\* The interpretation logic of run_director_interpreter.
interpret(target, zn) ==
    IF target \in DOMAIN zn.objects
    THEN LET obj == zn.objects[target]
         IN  IF Get(obj.properties, "required_skill", None) \notin {None, ""}
             THEN DirectorResult(TRUE, obj.properties["required_skill"],
                                 Get(obj.properties, "difficulty", "moderate"),
                                 None, "", << >>)
             ELSE NoResult
    ELSE IF target \in DOMAIN zn.exits
    THEN IF zn.exits[target].status = "locked"
         THEN DirectorResult(TRUE, "comtech", "moderate", None, "", << >>)
         ELSE NoResult
    ELSE NoResult

\* Mutant of run_director_interpreter: an attempt that needs a check costs
\* the character a point of stress, written as soon as it is interpreted.
run_director_interpreter_charging_stress ==
    /\ agent.node = "director_interpreter"
    /\ LET result == interpret(agent.actor_response.action_intent.target,
                               current_zone)
       IN  /\ agent' = [agent EXCEPT !.director_result = result,
                                     !.node = Edge("director_interpreter")]
           /\ GAME_STATE' =
                IF result.skill_check_needed
                THEN [GAME_STATE EXCEPT
                        !.characters[GAME_STATE.active_character_id].status.stress
                            = @ + 1]
                ELSE GAME_STATE
    /\ path' = Append(path, "director_interpreter")
    /\ UNCHANGED <<roll, draws, actor_failed, began, apiVars, previous>>

\* Node 2
run_director_interpreter ==
    /\ agent.node = "director_interpreter"
    /\ agent' = [agent EXCEPT
                   !.director_result = interpret(agent.actor_response.action_intent.target,
                                                 current_zone),
                   !.node = Edge("director_interpreter")]
    /\ path' = Append(path, "director_interpreter")
    /\ UNCHANGED <<GAME_STATE, roll, draws, actor_failed, began, apiVars, previous>>

\* Mutant of skill_value: the skill counts only as long as no dice have
\* been drawn from the random source.
skill_value_until_first_draw(ch, skill_name) ==
    IF draws = 0 THEN Get(ch.skills, skill_name, 0) ELSE 0

\* getattr(character.skills, skill_name, 0)
skill_value(ch, skill_name) == Get(ch.skills, skill_name, 0)

\* Mutant of attribute_value: a skill without an entry falls back to might.
attribute_value_falling_back_to_might(ch, skill_name) ==
    Get([comtech |-> ch.attributes.wits,
         heavy_machinery |-> ch.attributes.might,
         medical_aid |-> ch.attributes.empathy,
         observation |-> ch.attributes.wits,
         close_combat |-> ch.attributes.might,
         ranged_combat |-> ch.attributes.agility],
        skill_name, ch.attributes.might)

\* attribute_map.get(skill_name, character.attributes.wits)
attribute_value(ch, skill_name) ==
    Get([comtech |-> ch.attributes.wits,
         heavy_machinery |-> ch.attributes.might,
         medical_aid |-> ch.attributes.empathy,
         observation |-> ch.attributes.wits,
         close_combat |-> ch.attributes.might,
         ranged_combat |-> ch.attributes.agility],
        skill_name, ch.attributes.wits)

\* difficulty_map.get(difficulty, 10)
threshold(difficulty) ==
    Get([trivial |-> 6, easy |-> 8, moderate |-> 10, hard |-> 12, extreme |-> 14],
        difficulty, 10)

\* Mutant of succeeds: the threshold itself is not enough.
succeedsAbove(total, limit) == total > limit

\* success = total >= threshold
succeeds(total, limit) == total >= limit

\* Mutant of run_director_resolver: the dice are thrown before the resolver
\* looks whether a check is needed.
run_director_resolver_rolling_first(faces) ==
    /\ agent.node = "director_resolver"
    /\ \E d1 \in faces, d2 \in faces :
         LET skill_name == agent.director_result.skill_used
             sv == skill_value(current_character, skill_name)
             av == attribute_value(current_character, skill_name)
             total == (d1 + d2) + av + sv
             limit == threshold(agent.director_result.difficulty)
         IN  /\ draws' = draws + 2
             /\ IF ~agent.director_result.skill_check_needed
                THEN /\ agent' = [agent EXCEPT
                                    !.director_result.success = Bool(TRUE),
                                    !.node = Edge("director_resolver")]
                     /\ UNCHANGED roll
                ELSE /\ agent' = [agent EXCEPT
                                    !.director_result.success =
                                        Bool(succeeds(total, limit)),
                                    !.node = Edge("director_resolver")]
                     /\ roll' = [d1 |-> d1, d2 |-> d2, attribute_value |-> av,
                                 skill_value |-> sv, total |-> total,
                                 threshold |-> limit]
    /\ path' = Append(path, "director_resolver")
    /\ UNCHANGED <<GAME_STATE, actor_failed, began, apiVars, previous>>

\* Node 3: automatic success without a check, else 2d6 + attribute + skill
\* against the threshold of the difficulty.
run_director_resolver(faces) ==
    /\ agent.node = "director_resolver"
    /\ IF ~agent.director_result.skill_check_needed
       THEN /\ agent' = [agent EXCEPT !.director_result.success = Bool(TRUE),
                                      !.node = Edge("director_resolver")]
            /\ UNCHANGED <<roll, draws>>
       ELSE \E d1 \in faces, d2 \in faces :
              LET skill_name == agent.director_result.skill_used
                  sv == skill_value(current_character, skill_name)
                  av == attribute_value(current_character, skill_name)
                  total == (d1 + d2) + av + sv
                  limit == threshold(agent.director_result.difficulty)
              IN  /\ agent' = [agent EXCEPT
                                 !.director_result.success = Bool(succeeds(total, limit)),
                                 !.node = Edge("director_resolver")]
                  /\ roll' = [d1 |-> d1, d2 |-> d2, attribute_value |-> av,
                              skill_value |-> sv, total |-> total, threshold |-> limit]
                  /\ draws' = draws + 2
    /\ path' = Append(path, "director_resolver")
    /\ UNCHANGED <<GAME_STATE, actor_failed, began, apiVars, previous>>

\* The narration templates of run_director_narrator, by the template used.
narrate(verb, target, success) ==
    IF verb = "REPAIR" /\ target = "door_control_panel_north"
    THEN IF success = Bool(TRUE) THEN "repair_success" ELSE "repair_failure"
    ELSE IF verb = "EXAMINE" THEN "examine"
    ELSE IF success = Bool(TRUE) THEN "generic_success" ELSE "generic_failure"

\* Mutant of run_director_narrator: the narrator hands on a fresh result
\* that carries the narration but not the outcome.
run_director_narrator_dropping_success ==
    /\ agent.node = "director_narrator"
    /\ agent' = [agent EXCEPT
                   !.director_result.narration =
                       narrate(agent.actor_response.action_intent.verb,
                               agent.actor_response.action_intent.target,
                               agent.director_result.success),
                   !.director_result.success = None,
                   !.node = Edge("director_narrator")]
    /\ path' = Append(path, "director_narrator")
    /\ UNCHANGED <<GAME_STATE, roll, draws, actor_failed, began, apiVars, previous>>

\* Node 4
run_director_narrator ==
    /\ agent.node = "director_narrator"
    /\ agent' = [agent EXCEPT
                   !.director_result.narration =
                       narrate(agent.actor_response.action_intent.verb,
                               agent.actor_response.action_intent.target,
                               agent.director_result.success),
                   !.node = Edge("director_narrator")]
    /\ path' = Append(path, "director_narrator")
    /\ UNCHANGED <<GAME_STATE, roll, draws, actor_failed, began, apiVars, previous>>

\* Mutant of update_zone: the door is given the status written to the panel.
update_zone_door_functional(zn, intent, success) ==
    IF success = Bool(TRUE) /\ intent.verb = "REPAIR"
       /\ intent.target = "door_control_panel_north"
    THEN LET z1 == IF "door_control_panel_north" \in DOMAIN zn.objects
                   THEN [zn EXCEPT !.objects["door_control_panel_north"].status =
                                       "functional"]
                   ELSE zn
         IN  IF "north_door" \in DOMAIN z1.exits
             THEN [z1 EXCEPT !.exits["north_door"].status = "functional"]
             ELSE z1
    ELSE zn

\* Mutant of update_zone: a failed repair of the panel leaves it smashed
\* again.
update_zone_failure_smashes(zn, intent, success) ==
    IF intent.verb = "REPAIR" /\ intent.target = "door_control_panel_north"
    THEN IF success = Bool(TRUE)
         THEN LET z1 == IF "door_control_panel_north" \in DOMAIN zn.objects
                        THEN [zn EXCEPT !.objects["door_control_panel_north"].status =
                                            "functional"]
                        ELSE zn
              IN  IF "north_door" \in DOMAIN z1.exits
                  THEN [z1 EXCEPT !.exits["north_door"].status = "unlocked"]
                  ELSE z1
         ELSE IF "door_control_panel_north" \in DOMAIN zn.objects
              THEN [zn EXCEPT !.objects["door_control_panel_north"].status = "smashed"]
              ELSE zn
    ELSE zn

\* The zone after run_director_state_updater, lines 284-295.
update_zone(zn, intent, success) ==
    IF success = Bool(TRUE) /\ intent.verb = "REPAIR"
       /\ intent.target = "door_control_panel_north"
    THEN LET z1 == IF "door_control_panel_north" \in DOMAIN zn.objects
                   THEN [zn EXCEPT !.objects["door_control_panel_north"].status =
                                       "functional"]
                   ELSE zn
         IN  IF "north_door" \in DOMAIN z1.exits
             THEN [z1 EXCEPT !.exits["north_door"].status = "unlocked"]
             ELSE z1
    ELSE zn

\* Mutant of state_updates: any successful REPAIR reports the repair,
\* whatever its target.
state_updates_any_target(zn, intent, success) ==
    IF success = Bool(TRUE) /\ intent.verb = "REPAIR"
    THEN LET u1 == IF "door_control_panel_north" \in DOMAIN zn.objects
                   THEN [door_control_panel_north |-> "repaired"]
                   ELSE << >>
         IN  IF "north_door" \in DOMAIN zn.exits
             THEN u1 @@ [north_door |-> "unlocked"]
             ELSE u1
    ELSE << >>

\* state_updates as built by run_director_state_updater, lines 281-295.
state_updates(zn, intent, success) ==
    IF success = Bool(TRUE) /\ intent.verb = "REPAIR"
       /\ intent.target = "door_control_panel_north"
    THEN LET u1 == IF "door_control_panel_north" \in DOMAIN zn.objects
                   THEN [door_control_panel_north |-> "repaired"]
                   ELSE << >>
         IN  IF "north_door" \in DOMAIN zn.exits
             THEN u1 @@ [north_door |-> "unlocked"]
             ELSE u1
    ELSE << >>

\* Mutant of run_director_state_updater: a failed action costs the
\* character a point of stress.
run_director_state_updater_charging_failure ==
    /\ agent.node = "director_state_updater"
    /\ LET intent == agent.actor_response.action_intent
           id == GAME_STATE.active_character_id
           zid == current_character.current_zone
           zn == GAME_STATE.zones[zid]
           updates == state_updates(zn, intent, agent.director_result.success)
           turn_result == TurnResult(agent.director_result.narration,
                                     agent.actor_response.speech, updates,
                                     GAME_STATE.current_turn, current_character.name)
       IN  /\ GAME_STATE' =
                [GAME_STATE EXCEPT
                   !.zones[zid] = update_zone(zn, intent, agent.director_result.success),
                   !.characters[id].status.stress =
                       IF agent.director_result.success = Bool(FALSE)
                       THEN @ + 1 ELSE @,
                   !.game_log = Append(@, turn_result),
                   !.current_turn = @ + 1]
           /\ agent' = [agent EXCEPT !.director_result.state_updates = updates,
                                     !.turn_result = turn_result,
                                     !.node = Edge("director_state_updater")]
    /\ path' = Append(path, "director_state_updater")
    /\ UNCHANGED <<roll, draws, actor_failed, began, apiVars, previous>>

\* Node 5: update the zone, append the TurnResult, advance the counter.
run_director_state_updater ==
    /\ agent.node = "director_state_updater"
    /\ LET intent == agent.actor_response.action_intent
           zid == current_character.current_zone
           zn == GAME_STATE.zones[zid]
           updates == state_updates(zn, intent, agent.director_result.success)
           turn_result == TurnResult(agent.director_result.narration,
                                     agent.actor_response.speech, updates,
                                     GAME_STATE.current_turn, current_character.name)
       IN  /\ GAME_STATE' =
                [GAME_STATE EXCEPT
                   !.zones[zid] = update_zone(zn, intent, agent.director_result.success),
                   !.game_log = Append(@, turn_result),
                   !.current_turn = @ + 1]
           /\ agent' = [agent EXCEPT !.director_result.state_updates = updates,
                                     !.turn_result = turn_result,
                                     !.node = Edge("director_state_updater")]
    /\ path' = Append(path, "director_state_updater")
    /\ UNCHANGED <<roll, draws, actor_failed, began, apiVars, previous>>

\* run_single_turn, line 372: graph.invoke returned, the turn result is
\* handed to the caller.
Return ==
    /\ agent.node = "END"
    /\ agent' = [agent EXCEPT !.node = "idle"]
    /\ UNCHANGED <<GAME_STATE, roll, draws, path, actor_failed, began, apiVars, previous>>

Init == InitApi /\ InitGraph

\* The server of app/main.py and the graph of game_loop/engine.py are two
\* programs with separate state: a behaviour is a run of one of them
\* (ReceiveSerial and RunTurn each require that the other program has not
\* started).

Next ==
    \/ \E r \in Requests, text \in Commands : ReceiveSerial(r, text)
    \/ \E r \in Requests : CallActor(r, ActorResults)
    \/ \E r \in Requests : CallDirector(r, DirectorResults)
    \/ \E r \in Requests : Step(r)
    \/ \E c \in Commands : RunTurn(c)
    \/ run_ai_actor
    \/ run_director_interpreter
    \/ run_director_resolver(TurnDie)
    \/ run_director_narrator
    \/ run_director_state_updater
    \/ Return

Spec == Init /\ [][Next]_vars

\* Under concurrency the capability results are sampled more coarsely.
ConcActorResults == { [thoughts |-> TRUE, speech |-> FALSE] }
ConcDirectorResults ==
    { [narration |-> TRUE, world_updates |-> NoUpdates],
      [narration |-> TRUE, world_updates |-> [zone |-> Dict(<< <<"description", "v1">> >>)]] }

NextConc ==
    \/ \E r \in Requests, text \in Commands : Receive(r, text)
    \/ \E r \in Requests : CallActor(r, ConcActorResults)
    \/ \E r \in Requests : CallDirector(r, ConcDirectorResults)
    \/ \E r \in Requests : Step(r)

SpecConc == Init /\ [][NextConc]_vars


\* ------------------------------------------- run_director_resolver alone
\* Characters in which every attribute and every skill takes every value of
\* 0..5, distinct attributes holding distinct values.
Stats(a, k) ==
    [miller EXCEPT
       !.attributes = [might |-> a, agility |-> (a + 1) % 6, wits |-> (a + 2) % 6,
                       empathy |-> (a + 3) % 6],
       !.skills = [comtech |-> k, heavy_machinery |-> (k + 1) % 6,
                   stamina |-> (k + 2) % 6, close_combat |-> (k + 3) % 6,
                   ranged_combat |-> (k + 4) % 6, piloting |-> (k + 5) % 6,
                   command |-> k, manipulation |-> (k + 1) % 6,
                   medical_aid |-> (k + 2) % 6, mobility |-> (k + 3) % 6,
                   observation |-> (k + 4) % 6, survival |-> (k + 5) % 6]]

\* required_skill values: the mapped skills, a skill without an entry in
\* attribute_map, and a name that is no skill at all.
CheckSkills == {"comtech", "heavy_machinery", "medical_aid", "observation",
                "close_combat", "ranged_combat", "piloting", "hacking"}

\* difficulty values: the five tiers, an unknown one, and None.
Difficulties == {"trivial", "easy", "moderate", "hard", "extreme", "legendary", None}

\* What run_director_interpreter can hand to the resolver.
Interpreted ==
    { DirectorResult(TRUE, s, d, None, "", << >>) : s \in CheckSkills, d \in Difficulties }
    \cup { NoResult }

\* The intents that come with an interpretation: any verb on a target that
\* needs no check, the repair of the panel with one that does.
ResolveIntents(dr) ==
    IF dr = NoResult
    THEN { ActionIntent(v, t, None, "slow") :
             v \in Verbs, t \in {"medical_scanner", "airlock"} }
    ELSE { ActionIntent("REPAIR", "door_control_panel_north", None, "slow") }

InitResolve ==
    /\ InitApi
    /\ \E a \in 0..5, k \in 0..5 :
         GAME_STATE = [create_initial_game_state EXCEPT !.characters["miller"] = Stats(a, k)]
    /\ \E dr \in Interpreted : \E intent \in ResolveIntents(dr) :
         agent = [node |-> "director_resolver", commander_command |-> "fix the door",
                  actor_response |-> ActorResponse("thoughts", "speech", intent),
                  director_result |-> dr, turn_result |-> NoTurnResult]
    /\ roll = NoRoll
    /\ draws = 0
    /\ path = <<"ai_actor", "director_interpreter">>
    /\ actor_failed = FALSE
    /\ began = GAME_STATE
    /\ previous = NoPrevious

NextResolve == run_director_resolver(Die)

SpecResolve == InitResolve /\ [][NextResolve]_vars

\* ------------------------------------------- the resolver, run twice
\* run_director_resolver called a second time on the state it was first
\* called on: the first outcome is kept aside, the AgentState is the one
\* the interpreter handed over, the random source goes on where it was.
ResolveAgain ==
    /\ agent.node = Edge("director_resolver")
    /\ ~previous.recorded
    /\ previous' = [recorded |-> TRUE, roll |-> roll,
                    success |-> agent.director_result.success]
    /\ agent' = [agent EXCEPT !.director_result.success = None,
                              !.node = "director_resolver"]
    /\ roll' = NoRoll
    /\ path' = <<"ai_actor", "director_interpreter">>
    /\ UNCHANGED <<GAME_STATE, draws, actor_failed, began, apiVars>>

NextResolveTwice == run_director_resolver(TurnDie) \/ ResolveAgain

SpecResolveTwice == InitResolve /\ [][NextResolveTwice]_vars

\* ---------------------------------------------- the state query
\* GET /api/state served while turn requests are processed: both endpoints
\* are plain functions, which the server runs on worker threads.
NextQuery ==
    \/ \E r \in Requests, text \in Commands : ReceiveSerial(r, text)
    \/ \E r \in Requests : CallActor(r, ConcActorResults)
    \/ \E r \in Requests : CallDirector(r, ConcDirectorResults)
    \/ \E r \in Requests : Step(r)
    \/ get_game_state

SpecQuery == Init /\ [][NextQuery]_vars

\* ------------------------------------------------ the graph run to its end
\* graph.invoke runs the nodes one after the other on the caller's thread:
\* once run_single_turn is called, the node that is due runs, and each node
\* returns (the model call of run_ai_actor returns or raises). Whether a
\* further turn is asked for is up to the caller.
GraphStep ==
    \/ run_ai_actor
    \/ run_director_interpreter
    \/ run_director_resolver(TurnDie)
    \/ run_director_narrator
    \/ run_director_state_updater
    \/ Return

NextTurn == (\E c \in Commands : RunTurn(c)) \/ GraphStep

SpecTurn == Init /\ [][NextTurn]_vars /\ WF_vars(GraphStep)

\* ------------------------------------------------- the interpreter alone
\* run_director_interpreter as a function of the zone and the intent: zones
\* whose objects and exits are drawn from the shapes of the Zone schema.

\* ZoneObject values: a required skill with and without a declared
\* difficulty, no required_skill property, and an empty one.
ZoneObjectShapes ==
    { [status |-> "smashed",
       properties |-> [required_skill |-> "heavy_machinery", difficulty |-> "hard"]],
      [status |-> "dusty",
       properties |-> [required_skill |-> "observation"]],
      [status |-> "functional",
       properties |-> [power |-> "on"]],
      [status |-> "functional",
       properties |-> [required_skill |-> ""]] }

\* ZoneExit values.
ZoneExitShapes ==
    { [to |-> "corridor_3", status |-> "locked"],
      [to |-> "corridor_3", status |-> "open"] }

\* Names in Zone.objects and in Zone.exits: the two dicts are keyed
\* separately, so "hatch" can be in both.
ObjectNames == {"panel", "hatch"}
ExitNames == {"hatch", "door"}

InterpretZones ==
    { [id |-> "medbay_b", exits |-> e, objects |-> o] :
        o \in UNION { [S -> ZoneObjectShapes] : S \in SUBSET ObjectNames },
        e \in UNION { [S -> ZoneExitShapes] : S \in SUBSET ExitNames } }

\* Intents handed over by run_ai_actor: every verb on every name and on a
\* name that is in neither dict.
InterpretIntents ==
    { ActionIntent(v, t, None, "slow") :
        v \in Verbs, t \in ObjectNames \cup ExitNames \cup {"airlock"} }

InitInterpret ==
    /\ InitApi
    /\ \E z \in InterpretZones :
         GAME_STATE = [create_initial_game_state EXCEPT !.zones["medbay_b"] = z]
    /\ \E intent \in InterpretIntents :
         agent = [node |-> "director_interpreter", commander_command |-> "fix the door",
                  actor_response |-> ActorResponse("thoughts", "speech", intent),
                  director_result |-> NoResult, turn_result |-> NoTurnResult]
    /\ roll = NoRoll
    /\ draws = 0
    /\ path = <<"ai_actor">>
    /\ actor_failed = FALSE
    /\ began = GAME_STATE
    /\ previous = NoPrevious

NextInterpret == run_director_interpreter

SpecInterpret == InitInterpret /\ [][NextInterpret]_vars


\* ================================================================ claims
\* The request after which no other request has arrived.
Latest(r) == \A q \in Requests : q > r => pc[q] = "idle"

\* Log entries of a type appended by a request.
EntriesBy(r, types) ==
    { i \in DOMAIN game_log : game_log[i].by = r /\ game_log[i].type \in types }

\* The request's Actor (or Director) invocation did not return a result.
Failed(r, capability) ==
    \E i \in DOMAIN calls[r] :
        calls[r][i].capability = capability /\ calls[r][i].outcome # "ok"

WorldAsAtStart(r) == character = start[r].character /\ zone = start[r].zone

\* The items of one part of a patch, none if the part is absent or no dict.
PartItems(updates, part) ==
    IF part \in DOMAIN updates
    THEN IF updates[part].dict THEN updates[part].items ELSE << >>
    ELSE << >>

\* Every item naming a field of obj has its value in obj.
AllApplied(obj, items) ==
    \A i \in DOMAIN items : items[i][1] \in DOMAIN obj => obj[items[i][1]] = items[i][2]

\* C1: over any sequence of turn requests the counter grows by exactly 1
\* for every request that commits (returns 200) and by 0 for every request
\* that aborts (empty command, Actor failure, Director failure, exception
\* while the patch is applied or saved).
C1_CounterCountsCommits ==
    /\ \A r \in Requests :
         pc[r] = "done" /\ Latest(r) =>
            current_turn = start[r].turn + (IF http[r] = 200 THEN 1 ELSE 0)
    /\ (\A r \in Requests : ~InFlight(r)) =>
          current_turn = Cardinality({ r \in Requests : http[r] = 200 })

\* A committed turn and a turn aborted by an exception of the commit.
C1_Witness ==
    \E r, q \in Requests :
        /\ pc[r] = "done" /\ http[r] = 200
        /\ pc[q] = "done" /\ http[q] = 500
        /\ ~Failed(q, "actor") /\ ~Failed(q, "director") /\ Len(calls[q]) = 2
        /\ current_turn = 1

\* C2: after any advance_turn call, either every recognized field of the
\* patch is applied and the counter advanced by 1, or no field of the
\* character or zone changed and the counter did not advance.
C2_AtomicCommit ==
    \A r \in Requests :
        pc[r] = "done" /\ Latest(r) =>
           \/ /\ current_turn = start[r].turn + 1
              /\ AllApplied(zone, PartItems(director_result[r].world_updates, "zone"))
              /\ AllApplied(character,
                            PartItems(director_result[r].world_updates, "character"))
           \/ /\ current_turn = start[r].turn
              /\ WorldAsAtStart(r)

\* The request has begun INTENT (its command is logged) and has neither
\* committed (counter advanced) nor finished aborting.
InTurn(r) == pc[r] \notin {"idle", "log_command", "respond", "done"}

\* C3: turns are strictly serialized: no request begins INTENT while
\* another request that began before it has not finished its commit.
C3_TurnsSerialized ==
    \A r, q \in Requests : r # q => ~(InTurn(r) /\ InTurn(q))

\* The order of the phases: INTENT, INTERPRET, RESOLVE, NARRATE, COMMIT.
PhaseOrder == <<"ai_actor", "director_interpreter", "director_resolver",
                "director_narrator", "director_state_updater">>

C5_OneSystemEntryPerFailure ==
    \A r \in Requests :
        Failed(r, "actor") \/ Failed(r, "director") =>
           /\ Cardinality(EntriesBy(r, {"system"})) <= 1
           /\ pc[r] = "done" => Cardinality(EntriesBy(r, {"system"})) = 1
           /\ Latest(r) => WorldAsAtStart(r) /\ current_turn = start[r].turn

\* A turn aborted by a Director failure, after a committed turn.
C5_Witness ==
    \E r \in Requests :
        /\ pc[r] = "done"
        /\ Failed(r, "director")
        /\ start[r].turn = 1

C7_PhasesInOrder ==
    /\ Len(path) <= Len(PhaseOrder)
    /\ \A i \in DOMAIN path : path[i] = PhaseOrder[i]
    /\ agent.node \in {"END", "idle"} => path \in {<< >>, PhaseOrder}
    /\ agent.node \notin {"END", "idle"} =>
          /\ Len(path) < Len(PhaseOrder)
          /\ agent.node = PhaseOrder[Len(path) + 1]

\* A second turn reached DONE.
C7_Witness ==
    /\ agent.node = "END"
    /\ path = PhaseOrder
    /\ GAME_STATE.current_turn = 3

\* C8: the turn numbers in game_log are strictly increasing and gap-free:
\* the i-th TurnResult has turn_number i, and the log has current_turn - 1
\* entries.
C8_LogGapFree ==
    /\ \A i \in DOMAIN GAME_STATE.game_log : GAME_STATE.game_log[i].turn_number = i
    /\ Len(GAME_STATE.game_log) = GAME_STATE.current_turn - 1

C8_Witness == Len(GAME_STATE.game_log) = MaxTurns

\* C9: turn numbering starts at 1: before any turn has committed the current
\* turn number is 1, and every log record written during the first turn
\* carries turn number 1.
C9_TurnsStartAtOne ==
    /\ (\A r \in Requests : http[r] # 200 /\ pc[r] # "respond") => current_turn = 1
    /\ \A i \in DOMAIN game_log :
         (\A q \in Requests : q < game_log[i].by => http[q] # 200) =>
            game_log[i].turn = 1
    /\ GAME_STATE.game_log = << >> => GAME_STATE.current_turn = 1
    /\ Len(GAME_STATE.game_log) >= 1 => GAME_STATE.game_log[1].turn_number = 1

\* The thresholds of the difficulty tiers; 10 for any other tier.
TierThreshold(tier) ==
    CASE tier = "trivial" -> 6
      [] tier = "easy" -> 8
      [] tier = "moderate" -> 10
      [] tier = "hard" -> 12
      [] tier = "extreme" -> 14
      [] OTHER -> 10

\* C10: when a check is required RESOLVE sets success exactly when
\* die1 + die2 + attribute + skill >= threshold of the tier (10 for an
\* unknown or missing tier); wits 2, comtech 1, moderate: 4+3 succeeds and
\* 1+2 fails.
C10_SuccessIffThreshold ==
    agent.node = "director_narrator" /\ agent.director_result.skill_check_needed =>
       /\ roll.d1 \in 1..6 /\ roll.d2 \in 1..6
       /\ roll.attribute_value \in 0..5 /\ roll.skill_value \in 0..5
       /\ agent.director_result.success =
             Bool(roll.d1 + roll.d2 + roll.attribute_value + roll.skill_value
                     >= TierThreshold(agent.director_result.difficulty))
       /\ ( /\ current_character.attributes.wits = 2
            /\ current_character.skills.comtech = 1
            /\ agent.director_result.skill_used = "comtech"
            /\ agent.director_result.difficulty = "moderate" ) =>
               /\ roll.d1 = 4 /\ roll.d2 = 3 => agent.director_result.success = "True"
               /\ roll.d1 = 1 /\ roll.d2 = 2 => agent.director_result.success = "False"

\* Scenario A: wits 2, comtech 1, moderate, dice 4 and 3.
C10_Witness ==
    /\ agent.node = "director_narrator"
    /\ current_character.attributes.wits = 2
    /\ current_character.skills.comtech = 1
    /\ agent.director_result.skill_used = "comtech"
    /\ agent.director_result.difficulty = "moderate"
    /\ roll.d1 = 4 /\ roll.d2 = 3
    /\ agent.director_result.success = "True"

\* C11: when the interpreter decided that no skill check is required, the
\* resolver marks the action an automatic success and throws no dice: the
\* number of draws from the random source is what it was before the node ran
\* and no roll is recorded, for every character and every target.
C11_NoCheckNoDice ==
    (/\ path = <<"ai_actor", "director_interpreter", "director_resolver">>
     /\ ~agent.director_result.skill_check_needed)
    => /\ agent.director_result.success = Bool(TRUE)
       /\ draws = 0
       /\ roll = NoRoll

C11_Witness ==
    /\ path = <<"ai_actor", "director_interpreter", "director_resolver">>
    /\ ~agent.director_result.skill_check_needed
    /\ agent.actor_response.action_intent.target = "airlock"
    /\ agent.actor_response.action_intent.verb = "MOVE"
    /\ current_character.attributes.might = 5
    /\ agent.director_result.success = Bool(TRUE)
    /\ draws = 0

\* The attribute the specification pairs with a skill name.
PairedAttribute(skill_name) ==
    CASE skill_name \in {"comtech", "observation"} -> "wits"
      [] skill_name \in {"heavy_machinery", "close_combat"} -> "might"
      [] skill_name = "medical_aid" -> "empathy"
      [] skill_name = "ranged_combat" -> "agility"
      [] OTHER -> "wits"

IntentTarget == agent.actor_response.action_intent.target

\* The target names an object of the current zone that requires a skill (a
\* required_skill property that is present and not empty).
TargetRequiresSkill ==
    /\ IntentTarget \in DOMAIN current_zone.objects
    /\ "required_skill" \in DOMAIN current_zone.objects[IntentTarget].properties
    /\ current_zone.objects[IntentTarget].properties["required_skill"] # ""

\* The target names an exit of the current zone whose status is "locked".
TargetIsLockedExit ==
    /\ IntentTarget \in DOMAIN current_zone.exits
    /\ current_zone.exits[IntentTarget].status = "locked"

C14_LockedExitNeedsComtech ==
    (/\ path = <<"ai_actor", "director_interpreter">>
     /\ ~TargetRequiresSkill
     /\ TargetIsLockedExit)
    => /\ agent.director_result.skill_check_needed
       /\ agent.director_result.skill_used = "comtech"
       /\ agent.director_result.difficulty = "moderate"

\* The actor has answered in this turn and the target of its intent is
\* neither an object nor an exit of the acting character's zone.
TargetMatchesNothing ==
    /\ Len(path) >= 1
    /\ IntentTarget \notin DOMAIN current_zone.objects
    /\ IntentTarget \notin DOMAIN current_zone.exits

\* C15: when the target matches neither an object nor an exit of the acting
\* character's zone, no check is needed, the action is an automatic success,
\* the characters and zones stay as they were when the turn began, and the
\* turn still commits: one TurnResult is appended and the counter advances
\* by 1 (and neither happens before the last phase).
C15_UnknownTargetCommits ==
    TargetMatchesNothing =>
       /\ GAME_STATE.characters = began.characters
       /\ GAME_STATE.zones = began.zones
       /\ Len(path) >= 2 => ~agent.director_result.skill_check_needed
       /\ Len(path) >= 3 => /\ agent.director_result.success = Bool(TRUE)
                            /\ roll = NoRoll
       /\ Len(path) < 5 => /\ GAME_STATE.game_log = began.game_log
                           /\ GAME_STATE.current_turn = began.current_turn
       /\ Len(path) = 5 =>
             /\ GAME_STATE.game_log = Append(began.game_log, agent.turn_result)
             /\ agent.turn_result.state_changes = << >>
             /\ agent.turn_result.turn_number = began.current_turn
             /\ GAME_STATE.current_turn = began.current_turn + 1

\* A REPAIR of something that is not in the zone, committed as turn 2.
C15_Witness ==
    /\ TargetMatchesNothing
    /\ IntentTarget = "airlock"
    /\ agent.actor_response.action_intent.verb = "REPAIR"
    /\ path = PhaseOrder
    /\ agent.director_result.success = Bool(TRUE)
    /\ Len(GAME_STATE.game_log) = 2
    /\ GAME_STATE.current_turn = 3
    /\ GAME_STATE.zones = began.zones

\* The Director of the request returned a result (no error).
DirectorAnswered(r) ==
    \E i \in DOMAIN calls[r] : calls[r][i] = Call("director", "ok")

\* C16: a turn never commits with an empty narration: when the Director
\* returns an empty or missing narration the turn aborts before commit, so
\* no patch is applied and the counter does not advance; every committed
\* turn has a non-empty narration in the log.
C16_NoCommitWithoutNarration ==
    /\ \A r \in Requests :
         (DirectorAnswered(r) /\ ~director_result[r].narration) =>
            /\ pc[r] \notin {"advance", "advance_write", "respond"}
            /\ ~commits[r].called
            /\ http[r] # 200
            /\ Latest(r) => WorldAsAtStart(r) /\ current_turn = start[r].turn
    /\ \A r \in Requests :
         http[r] = 200 => EntriesBy(r, {"ai_action"}) # {}
    /\ \A i \in DOMAIN GAME_STATE.game_log :
         GAME_STATE.game_log[i].helmet_cam_feed # ""

\* Every key of the patch part is a name that is no field of the object.
NoFieldNamed(updates, part, fields) ==
    part \in DOMAIN updates =>
       /\ updates[part].dict
       /\ \A i \in DOMAIN updates[part].items :
            updates[part].items[i][1] \notin fields

\* The patch is not empty and contains only unrecognized field names, under
\* "zone", under "character" or under any other top-level key.
OnlyUnrecognized(updates) ==
    /\ updates # NoUpdates
    /\ NoFieldNamed(updates, "zone", ZoneFields)
    /\ NoFieldNamed(updates, "character", CharacterFields)

\* C17: applying a patch that contains only unrecognized field names raises
\* no error (the write of the files left aside) and leaves the character
\* and the zone exactly as they were, however often it is applied.
C17_UnknownFieldsIgnored ==
    \A r \in Requests :
        (commits[r].called /\ OnlyUnrecognized(director_result[r].world_updates)) =>
           /\ commits[r].io \in {"ok", "not_reached"} => ~commits[r].raised
           /\ Latest(r) => WorldAsAtStart(r)

\* The keys of one part of the patch that name a field of the object.
FieldKeys(updates, part, fields) ==
    { PartItems(updates, part)[i][1] : i \in DOMAIN PartItems(updates, part) }
        \cap fields

\* C18: commit reports the fields it applied: the returned applied set
\* contains exactly the patch keys that name pre-existing fields of the zone
\* or the character and were set, and never an unknown field name.
C18_AppliedReported ==
    \A r \in Requests :
        (commits[r].called /\ ~commits[r].raised) =>
           /\ ~commits[r].returned.none
           /\ commits[r].returned.applied =
                 FieldKeys(director_result[r].world_updates, "zone", ZoneFields)
                   \cup FieldKeys(director_result[r].world_updates, "character",
                                  CharacterFields)

\* C19: in every reachable world state every character attribute and every
\* character skill is an integer in 0..5 and the stress counter is an
\* integer >= 0, also after any patch applied by commit: the character of
\* the API holds values of its declared types, the characters of the engine
\* hold numbers in range.
C19_StatsInRange ==
    /\ character["attributes"] # "bad"
    /\ character["skills"] # "bad"
    /\ character["status"] # "bad"
    /\ \A id \in DOMAIN GAME_STATE.characters :
         LET ch == GAME_STATE.characters[id]
         IN  /\ \A a \in DOMAIN ch.attributes : ch.attributes[a] \in 0..5
             /\ \A k \in DOMAIN ch.skills : ch.skills[k] \in 0..5
             /\ ch.status.stress \in Nat

\* The statuses of all exits of all zones of the engine's world.
ExitStatuses ==
    UNION { { GAME_STATE.zones[z].exits[e].status :
                e \in DOMAIN GAME_STATE.zones[z].exits } :
            z \in DOMAIN GAME_STATE.zones }

\* C20 (as claimed): in every reachable world state the status of every
\* exit is one of open, locked, blocked, jammed.
C20_ExitStatusEnumerated ==
    ExitStatuses \subseteq {"open", "locked", "blocked", "jammed"}

\* C20 (amended): in every reachable world state of the engine the status
\* of every exit is one of open, locked, blocked, jammed, unlocked; north_door
\* is "unlocked" exactly from the turn on in which a REPAIR of
\* door_control_panel_north succeeded, and "locked" before.
C20_ExitStatus ==
    /\ ExitStatuses \subseteq {"open", "locked", "blocked", "jammed", "unlocked"}
    /\ LET door == GAME_STATE.zones["medbay_b"].exits["north_door"].status
           repaired == \E i \in DOMAIN GAME_STATE.game_log :
                          "north_door" \in DOMAIN GAME_STATE.game_log[i].state_changes
       IN  door = IF repaired THEN "unlocked" ELSE "locked"

\* The door after a successful repair of the panel.
C20_Witness ==
    /\ GAME_STATE.zones["medbay_b"].exits["north_door"].status = "unlocked"
    /\ GAME_STATE.zones["medbay_b"].objects["door_control_panel_north"].status
          = "functional"
    /\ path = PhaseOrder
    /\ agent.actor_response.action_intent.verb = "REPAIR"
    /\ agent.director_result.success = Bool(TRUE)
    /\ agent.turn_result.state_changes["north_door"] = "unlocked"

\* Every entry of a is in b at the same position with the same content.
IsPrefix(a, b) ==
    /\ Len(a) <= Len(b)
    /\ \A i \in DOMAIN a : b[i] = a[i]

\* C21: the log is append-only: over any sequence of committed and aborted
\* turns every step keeps each entry already in the log at its position
\* with its content, and the length of the log never decreases (the log of
\* the GameManager and the game_log of GAME_STATE alike).
C21_LogAppendOnly ==
    [][ /\ IsPrefix(game_log, game_log')
        /\ IsPrefix(GAME_STATE.game_log, GAME_STATE'.game_log) ]_vars

\* The entries of an aborted turn are still in front of those of the
\* committed turn that followed it.
C21_Witness ==
    /\ http[1] = 500 /\ http[2] = 200
    /\ Len(game_log) >= 4
    /\ game_log[1].by = 1 /\ game_log[1].type = "commander"
    /\ game_log[2].by = 1 /\ game_log[2].type = "system"
    /\ game_log[Len(game_log)].by = 2

\* The nodes that have run in this turn.
NodesRun == { path[i] : i \in DOMAIN path }

\* C22: within one turn the DirectorResult's success is None from INTERPRET
\* until RESOLVE has run and true or false from then on; it is set only by
\* RESOLVE, from None, and neither NARRATE nor COMMIT changes it (the next
\* turn starts from None again).
C22_SuccessSetOnce ==
    /\ [](IF "director_resolver" \in NodesRun
          THEN agent.director_result.success \in {Bool(TRUE), Bool(FALSE)}
          ELSE agent.director_result.success = None)
    /\ [][ agent'.director_result.success # agent.director_result.success =>
             \/ /\ agent.node = "director_resolver"
                /\ agent.director_result.success = None
             \/ /\ agent.node = "idle"
                /\ agent'.director_result.success = None ]_vars

\* A failed check that went through NARRATE and COMMIT.
C22_Witness ==
    /\ path = PhaseOrder
    /\ agent.director_result.skill_check_needed
    /\ agent.director_result.success = Bool(FALSE)
    /\ agent.director_result.narration = "repair_failure"
    /\ Len(GAME_STATE.game_log) = 1

\* The intent of this turn names a tool that the acting character does not
\* carry.
ToolNotInInventory ==
    /\ Len(path) >= 1
    /\ agent.actor_response.action_intent.using # None
    /\ \A i \in DOMAIN current_character.inventory :
          current_character.inventory[i] # agent.actor_response.action_intent.using

\* C23: an intent that names a tool which is not in the acting character's
\* inventory is rejected as a validation failure: the turn does not resolve
\* or commit, no state changes and the counter does not advance.
C23_ToolMustBeCarried ==
    ToolNotInInventory =>
       /\ "director_resolver" \notin NodesRun
       /\ "director_state_updater" \notin NodesRun
       /\ GAME_STATE = began

\* Positions of advance_turn after the command was received and before
\* apply_world_updates has run.
BeforeCommit == {"log_command", "actor", "director", "log_error", "log_thoughts",
                 "log_speech", "log_action", "apply"}

EntriesIn(log, r) == { i \in DOMAIN log : log[i].by = r }

\* C25: a state query issued while a turn is in flight never observes that
\* turn partially: the log it returns contains either none or all of the
\* entries of each turn.
C25_QueryNeverPartial ==
    query.pc = "done" =>
       \A r \in Requests :
          pc[r] = "done" =>
             \/ EntriesIn(query.log, r) = {}
             \/ EntriesIn(query.log, r) = EntriesIn(game_log, r)

\* C29: the state query is read-only and ordered: no step of it changes the
\* character, the zone, the log, the turn counter or the files, and it
\* returns the log entries in the order they were appended together with
\* the current turn number.
C29_QueryReadOnly ==
    [][ query' # query =>
          /\ UNCHANGED <<character, zone, game_log, current_turn, saved>>
          /\ query'.pc = "read_turn" => query'.log = game_log
          /\ query'.pc = "done" => /\ query'.current_turn = current_turn
                                   /\ query'.log = query.log ]_vars

\* A query answered after a committed turn: its entries in order, turn 1.
C29_Witness ==
    /\ query.pc = "done"
    /\ Len(query.log) >= 3
    /\ query.log[1].type = "commander"
    /\ query.log[2].type = "ai_thoughts"
    /\ query.log = game_log
    /\ query.current_turn = 1
    /\ current_turn = 1

\* The invocations of a capability made for a request.
Invocations(r, capability) ==
    { i \in DOMAIN calls[r] : calls[r][i].capability = capability }

\* C26: the pipeline never retries: within one advance_turn / process_turn
\* call the Actor capability is invoked at most once and the Director
\* capability at most once, whether or not either fails, and the Director
\* only after an Actor call that returned.
C26_NoRetry ==
    \A r \in Requests :
        /\ Cardinality(Invocations(r, "actor")) <= 1
        /\ Cardinality(Invocations(r, "director")) <= 1
        /\ Failed(r, "actor") => Invocations(r, "director") = {}
        /\ pc[r] \in {"log_command", "actor"} => calls[r] = << >>

\* A request that ended after its one Director call failed.
C26_Witness ==
    \E r \in Requests :
        /\ pc[r] = "done" /\ http[r] = 500
        /\ calls[r] = <<Call("actor", "ok"), Call("director", "error")>>

C28_SaveReloadRoundTrip ==
    \A r \in Requests :
        (/\ pc[r] = "done" /\ http[r] = 200 /\ Latest(r)
         /\ commits[r].called /\ ~commits[r].raised)
        => LET reloaded == GameManager(saved)
           IN  /\ ~reloaded.raised
               /\ reloaded.character = character
               /\ reloaded.zone = zone

\* The action of this turn succeeded, its verb is REPAIR and its target is
\* door_control_panel_north.
SuccessfulPanelRepair ==
    /\ agent.director_result.success = Bool(TRUE)
    /\ agent.actor_response.action_intent.verb = "REPAIR"
    /\ IntentTarget = "door_control_panel_north"

\* C30: in the 5-phase pipeline a turn changes the world only when the
\* action succeeded, its verb is REPAIR and its target is
\* door_control_panel_north; in every other case, every failed check among
\* them, all characters and zones are as they were when the turn began and
\* the TurnResult's state_changes is empty, while the turn still commits
\* (one TurnResult appended, counter advanced by 1).
C30_OnlyPanelRepairChangesWorld ==
    /\ GAME_STATE.characters = began.characters
    /\ (GAME_STATE.zones # began.zones) =>
          path = PhaseOrder /\ SuccessfulPanelRepair
    /\ (path = PhaseOrder /\ ~SuccessfulPanelRepair) =>
          /\ GAME_STATE.zones = began.zones
          /\ agent.turn_result.state_changes = << >>
          /\ GAME_STATE.game_log = Append(began.game_log, agent.turn_result)
          /\ GAME_STATE.current_turn = began.current_turn + 1

\* Scenario B: the repair fails on 1 + 1, nothing is changed and the turn
\* is committed.
C30_Witness ==
    /\ path = PhaseOrder
    /\ agent.actor_response.action_intent.verb = "REPAIR"
    /\ IntentTarget = "door_control_panel_north"
    /\ roll.d1 = 1 /\ roll.d2 = 1
    /\ agent.director_result.success = Bool(FALSE)
    /\ GAME_STATE.zones = began.zones
    /\ agent.turn_result.state_changes = << >>
    /\ Len(GAME_STATE.game_log) = Len(began.game_log) + 1
    /\ GAME_STATE.current_turn = began.current_turn + 1

\* A zone with one recorded change written back: the key names an object
\* or an exit, the value becomes its status.
WithChange(zn, key, value) ==
    IF key \in DOMAIN zn.objects
    THEN [zn EXCEPT !.objects[key].status = value]
    ELSE IF key \in DOMAIN zn.exits
         THEN [zn EXCEPT !.exits[key].status = value]
         ELSE zn

\* A zone with every key/value of a state_changes record written back.
RECURSIVE WithChanges(_, _, _)
WithChanges(zn, changes, keys) ==
    IF keys = {} THEN zn
    ELSE LET key == CHOOSE k \in keys : TRUE
         IN  WithChanges(WithChange(zn, key, changes[key]), changes, keys \ {key})

\* The zone obtained by replaying the state_changes of the first n
\* TurnResults of the log, in turn order, from the initial zone.
RECURSIVE Replay(_, _)
Replay(results, n) ==
    IF n = 0 THEN create_initial_game_state.zones["medbay_b"]
    ELSE LET changes == results[n].state_changes
         IN  WithChanges(Replay(results, n - 1), changes, DOMAIN changes)

\* C31: each TurnResult records the state change actually applied: replaying
\* the state_changes of all TurnResults in turn order from the initial
\* world reproduces the current world, every recorded key/value being the
\* status value the turn wrote to that object or exit.
C31_ReplayReproducesWorld ==
    Replay(GAME_STATE.game_log, Len(GAME_STATE.game_log)) =
        GAME_STATE.zones["medbay_b"]

\* The names hasattr finds on a model object: its fields and the
\* attributes of the model class.
Attributes(fields) == fields \cup ModelAttrs

\* Every item naming an attribute of obj has its value in obj.
AllAttributesSet(obj, fields, items) ==
    \A i \in DOMAIN items :
        items[i][1] \in Attributes(fields) =>
           items[i][1] \in DOMAIN obj /\ obj[items[i][1]] = items[i][2]

\* C32: apply_world_updates sets every patch key under "zone" (resp.
\* "character") that names an existing attribute of the zone (resp. the
\* character) to the patch's value, creates no new field, ignores every
\* top-level key other than "zone" and "character", and applies the zone
\* part before the character part (a zone part that raises leaves the
\* character untouched).
C32_PatchApplied ==
    \A r \in Requests :
        (commits[r].called /\ Latest(r)) =>
           LET updates == director_result[r].world_updates
           IN  /\ AllAttributesSet(zone, ZoneFields, PartItems(updates, "zone"))
               /\ AllAttributesSet(character, CharacterFields,
                                   PartItems(updates, "character"))
               /\ DOMAIN zone = ZoneFields
               /\ DOMAIN character = CharacterFields
               /\ "zone" \notin DOMAIN updates => zone = start[r].zone
               /\ "character" \notin DOMAIN updates =>
                     character = start[r].character
               /\ zone # start[r].zone \/ character # start[r].character =>
                     \E part \in {"zone", "character"} :
                         PartItems(updates, part) # << >>

\* C33 as stated: in the GameManager log, entries that carry the same turn
\* number all come from one advance_turn request: the entries of an aborted
\* turn never share a turn number with the entries of the next committed
\* turn.
C33_TurnNumberNamesRequest ==
    \A i, j \in DOMAIN game_log :
        game_log[i].turn = game_log[j].turn => game_log[i].by = game_log[j].by

\* C33 as the code has it, for requests served one after the other: every
\* entry of a request carries the counter the request started from; an
\* aborted request leaves the counter as it was, so its entries carry the
\* same turn number as the entries of the request after it; between an
\* entry and a later one the turn number grows by the number of requests
\* committed from the earlier entry's request up to the later one's, so two
\* requests share a turn number exactly if none of them but the last
\* committed.
C33_TurnNumberSharedAfterAbort ==
    /\ \A i \in DOMAIN game_log :
         game_log[i].turn = start[game_log[i].by].turn
    /\ \A i, j \in DOMAIN game_log :
         i < j =>
            /\ game_log[i].by <= game_log[j].by
            /\ game_log[j].turn =
                  game_log[i].turn
                  + Cardinality({ q \in Requests :
                                    /\ game_log[i].by <= q /\ q < game_log[j].by
                                    /\ http[q] = 200 })

\* An aborted turn followed by a committed one: the entries of both carry
\* turn number 0.
C33_Witness ==
    \E r, q \in Requests :
        /\ r < q
        /\ pc[r] = "done" /\ http[r] = 500
        /\ pc[q] = "done" /\ http[q] = 200
        /\ EntriesBy(r, {"commander"}) # {} /\ EntriesBy(r, {"system"}) # {}
        /\ EntriesBy(q, {"commander"}) # {} /\ EntriesBy(q, {"ai_action"}) # {}
        /\ \A i \in DOMAIN game_log : game_log[i].turn = 0

\* C34: under any interleaving of concurrent advance_turn requests, all log
\* entries appended by one request (COMMANDER, AI_THOUGHTS, AI_DIALOGUE,
\* AI_ACTION) carry the same turn number, and the turn fields along the log
\* are non-decreasing.
C34_OneTurnNumberPerRequest ==
    /\ \A r \in Requests :
         \A i, j \in EntriesBy(r, {"commander", "ai_thoughts", "ai_dialogue",
                                   "ai_action"}) :
             game_log[i].turn = game_log[j].turn
    /\ \A i, j \in DOMAIN game_log :
         i < j => game_log[i].turn <= game_log[j].turn

\* C35: in the 2-phase orchestration the Director is invoked only after the
\* Actor returned without error: whenever the Actor result contains an
\* error, process_turn returns that error with an empty director_result and
\* the Director capability is not called in that turn.
C35_DirectorOnlyAfterActor ==
    \A r \in Requests :
        /\ \A i \in Invocations(r, "director") :
             i = 2 /\ calls[r][1] = Call("actor", "ok")
        /\ (calls[r] # << >> /\ calls[r][1] = Call("actor", "error")) =>
              /\ error[r]
              /\ director_result[r] = NoDirector
              /\ Invocations(r, "director") = {}
              /\ pc[r] \in {"log_error", "done"}

\* A request whose Actor returned an error: it ended with that single call
\* and the error, and a later request called both capabilities.
C35_Witness ==
    \E r, q \in Requests :
        /\ pc[r] = "done" /\ calls[r] = <<Call("actor", "error")>>
        /\ error[r] /\ director_result[r] = NoDirector
        /\ calls[q] = <<Call("actor", "ok"), Call("director", "ok")>>

\* The turn is over: all five nodes ran in order, exactly one TurnResult was
\* appended to the log and the counter is one more than when it began.
TurnDone ==
    /\ agent.node = "END"
    /\ path = PhaseOrder
    /\ GAME_STATE.game_log = Append(began.game_log, agent.turn_result)
    /\ GAME_STATE.current_turn = began.current_turn + 1

\* C36: every call of run_single_turn terminates in DONE with exactly one
\* TurnResult appended and the counter advanced by 1, provided each
\* capability call returns or raises; an Actor error is replaced by the
\* fallback intent (EXAMINE door_control_panel_north) and the turn proceeds
\* through all remaining phases.
C36_TurnTerminates ==
    /\ (agent.node = "ai_actor") ~> TurnDone
    /\ (actor_failed /\ agent.node \notin {"idle", "END"}) ~>
          (actor_failed /\ TurnDone /\ agent.actor_response = fallback_response)
    /\ [](agent.node \notin {"idle", "ai_actor", "END"} =>
            /\ GAME_STATE.game_log = began.game_log
            /\ GAME_STATE.current_turn = began.current_turn
            /\ actor_failed => agent.actor_response = fallback_response)

\* A turn whose Actor call raised has come to its end on the fallback
\* intent, after an earlier turn.
C36_Witness ==
    /\ actor_failed
    /\ TurnDone
    /\ agent.actor_response.action_intent.verb = "EXAMINE"
    /\ IntentTarget = "door_control_panel_north"
    /\ Len(GAME_STATE.game_log) = 2

\* C37: in every reachable state of the 5-phase pipeline, north_door has
\* status "unlocked" only if door_control_panel_north has status
\* "functional", and once the door is unlocked and the panel functional
\* they stay so after every later turn.
C37_DoorFollowsPanel ==
    /\ [](current_zone.exits["north_door"].status = "unlocked" =>
            current_zone.objects["door_control_panel_north"].status = "functional")
    /\ [][(/\ current_zone.exits["north_door"].status = "unlocked"
           /\ current_zone.objects["door_control_panel_north"].status = "functional")
          => (/\ current_zone'.exits["north_door"].status = "unlocked"
              /\ current_zone'.objects["door_control_panel_north"].status =
                    "functional")]_vars

\* The door was unlocked in the first turn and two more turns have been
\* played since.
C37_Witness ==
    /\ GAME_STATE.game_log # << >>
    /\ GAME_STATE.game_log[1].state_changes # << >>
    /\ Len(GAME_STATE.game_log) = 3
    /\ current_zone.exits["north_door"].status = "unlocked"
    /\ current_zone.objects["door_control_panel_north"].status = "functional"

\* The TurnResults of the turns before this one in which the panel was
\* repaired.
EarlierRepairs ==
    { i \in DOMAIN began.game_log : began.game_log[i].state_changes # << >> }

\* C38: a successful REPAIR of door_control_panel_north is idempotent on the
\* world: repeating it after it has succeeded once leaves every zone and
\* character unchanged, although the turn still requires a comtech skill
\* check and still reports the same non-empty state_changes.
C38_RepairIdempotent ==
    (EarlierRepairs # {}
     /\ agent.actor_response.action_intent.verb = "REPAIR"
     /\ IntentTarget = "door_control_panel_north") =>
       /\ "director_interpreter" \in NodesRun =>
             /\ agent.director_result.skill_check_needed
             /\ agent.director_result.skill_used = "comtech"
       /\ "director_resolver" \in NodesRun => roll # NoRoll
       /\ GAME_STATE.zones = began.zones
       /\ GAME_STATE.characters = began.characters
       /\ (path = PhaseOrder /\ agent.director_result.success = Bool(TRUE)) =>
             /\ agent.turn_result.state_changes # << >>
             /\ \A i \in EarlierRepairs :
                  agent.turn_result.state_changes = began.game_log[i].state_changes

\* The panel is repaired in the first turn and repaired again, with
\* success, in the second.
C38_Witness ==
    /\ EarlierRepairs = {1}
    /\ path = PhaseOrder
    /\ SuccessfulPanelRepair
    /\ roll.total >= roll.threshold
    /\ agent.turn_result.state_changes = began.game_log[1].state_changes
    /\ GAME_STATE.zones = began.zones
    /\ Len(GAME_STATE.game_log) = 2

====
